---- MODULE Spec2Model ----
(***************************************************************************)
(* WAF-Abuser: the four-stage pipeline of src/waf-abuser.py (WAFAbuser.run) *)
(* with the source aggregator of src/modules/subdomain_gathering.py and the *)
(* range filter and similarity scorer of src/modules/utility.py.            *)
(*                                                                          *)
(* Names that the sources import but do not define are bound to the         *)
(* definitions they evidently stand for: subdomain_gathering is             *)
(* SubdomainGatherer.gather_subdomains, get_top_domains is                  *)
(* UtilityFunctions.get_top_domains, aiofiles is the aiofiles library.      *)
(* modules/ip_gathering.py is not among the sources; ip_gathering is        *)
(* modelled from section 4.2 of the specification.                          *)
(*                                                                          *)
(* A host name is a sequence of tokens: labels, "." and "*".                *)
(***************************************************************************)
EXTENDS Integers, Sequences, FiniteSets, TLC

VARIABLES
    args,              \* argparse.Namespace: input_domains, similarity_rate, domains_only
    pc,                \* control point of WAFAbuser.run
    error,             \* the exception that left run(), NoError while none
    todo,              \* gather_subdomains: domains the for loop has not taken yet
    cur,               \* gather_subdomains: the loop's current domain
    task,              \* the five coroutines handed to asyncio.gather
    queries,           \* requests the scrapers have issued, per (request, domain)
    cookie_jar,        \* dnsdumpster_scraping: the first response's csrftoken cookie, per domain
    dns_posts,         \* POST requests dnsdumpster_scraping has sent
    all_domains,       \* gather_subdomains: all_domains
    cache,             \* write_to_cache: files written, per (subdir, domain)
    subdomain_files,   \* write_subdomain_results: the dumps written, per domain
    all_domains_file,  \* write_all_domains: the aggregate dumps written
    printed,           \* domains printed by the --domains-only branch
    resolve_calls,     \* inputs ip_gathering was called with
    waf_file,          \* lines of data/PublicWAFs.txt
    filter_calls,      \* inputs filter_out_waf_ips was called with
    ips,               \* run: ips
    filtered_ips,      \* run: filtered_ips
    cmp_todo,          \* compare_ips: domains the outer loop has not taken yet
    cmp_cur,           \* compare_ips: the outer loop's current domain
    domain_content,    \* compare_ips: domain_content
    ip_todo,           \* compare_ips: IPs the inner loop has not taken yet
    fetches,           \* get_page_content: requests issued, per domain and per (domain, IP)
    baselines,         \* compare_ips: how the fetch of each domain's own page ended
    scored,            \* compare_two_pages: results returned
    similarity_output, \* compare_ips: similarity_output
    report,            \* output_results: the results files written, each a set of rows
    exit_code          \* the status the process exited with, << >> while it runs

vars == <<args, pc, error, todo, cur, task, queries, cookie_jar, dns_posts,
          all_domains, cache, subdomain_files, all_domains_file, printed,
          resolve_calls, waf_file, filter_calls, ips, filtered_ips, cmp_todo,
          cmp_cur, domain_content, ip_todo, fetches, baselines, scored,
          similarity_output, report, exit_code>>

discoveryVars == <<todo, cur, task, queries, cookie_jar, dns_posts, all_domains,
                   cache, subdomain_files, all_domains_file>>
filterVars == <<waf_file, filter_calls, ips, filtered_ips>>
compareVars == <<cmp_todo, cmp_cur, domain_content, ip_todo, fetches, baselines,
                 scored, similarity_output>>

NoError == [stage |-> "none", kind |-> "none", source |-> "none"]
NoDomain == << >>
None == "None"

(***************************************************************************)
(* Host names                                                              *)
(***************************************************************************)
DomainPool == { <<"x", ".", "c">>, <<"s", ".", "y", ".", "c">> }
PublicSuffixes == {"c"}

Sub(label, domain) == <<label, ".">> \o domain
Wild(domain) == <<"*", ".">> \o domain

\* str.lstrip('*.'): drops every leading character that is '*' or '.'
RECURSIVE lstrip(_, _)
lstrip(name, chars) ==
    IF name # << >> /\ Head(name) \in chars THEN lstrip(Tail(name), chars) ELSE name

\* str.startswith('*.')
startswith(name, prefix) ==
    /\ Len(name) >= Len(prefix)
    /\ SubSeq(name, 1, Len(prefix)) = prefix

\* the labels of a name, left to right
LabelsOf(name) == [i \in 1..((Len(name) + 1) \div 2) |-> name[2 * i - 1]]

\* get_top_domains.extract_domain: f"{extracted.domain}.{extracted.suffix}"
extract_domain(domain) ==
    LET L == LabelsOf(domain)
        n == Len(L)
    IN  IF L[n] \in PublicSuffixes
        THEN IF n >= 2 THEN <<L[n - 1], ".", L[n]>> ELSE <<".", L[n]>>
        ELSE <<L[n], ".">>

\* get_top_domains: empty names are filtered out, the rest reduced to their base
get_top_domains(domains) ==
    LET kept == SelectSeq(domains, LAMBDA d : d # << >>)
    IN  [i \in 1..Len(kept) |-> extract_domain(kept[i])]

Range(seq) == {seq[i] : i \in 1..Len(seq)}

(***************************************************************************)
(* Passive sources: what a request can come back with, and the parsers      *)
(***************************************************************************)
Sources == {"dnsdumpster", "certspotter", "hackertarget", "crtsh"}
TaskIds == Sources \cup {"top"}
\* the order of the list handed to asyncio.gather
TaskOrder == <<"dnsdumpster", "certspotter", "hackertarget", "crtsh", "top">>

NetErr == [shape |-> "neterr", items |-> << >>]
Malformed == [shape |-> "malformed", items |-> << >>]
RateLimited == [shape |-> "ratelimit", items |-> << >>]
Body(shape, items) == [shape |-> shape, items |-> items]

\* the requests of the scrapers: one query per source, and the GET that
\* dnsdumpster_scraping sends first to obtain its token
Requests == Sources \cup {"dnsdumpster_token"}
NoQueries == [k \in Requests \X DomainPool |-> 0]

\* the cookie jar after the first dnsdumpster request: a csrftoken or none
Cookies == {None, "tok1"}

\* str(cookies.get('csrftoken')): 'None', or the Morsel's header line
morsel_str(cookie) ==
    IF cookie = None THEN <<"None">> ELSE <<"Set-Cookie: csrftoken=", cookie>>

\* text.split('Set-Cookie: csrftoken='): the pieces around the separator
split_csrftoken(text) ==
    IF Head(text) = "Set-Cookie: csrftoken=" THEN <<"">> \o Tail(text) ELSE text

\* as csrf_token, with [-1] for [1]
csrf_token_last_piece(cookie) ==
    LET pieces == split_csrftoken(morsel_str(cookie))
    IN  [ok |-> TRUE, token |-> pieces[Len(pieces)]]

\* dnsdumpster_scraping line 31: the piece after the separator; IndexError
\* when the jar holds no csrftoken
csrf_token(cookie) ==
    LET pieces == split_csrftoken(morsel_str(cookie))
    IN  IF Len(pieces) < 2 THEN [ok |-> FALSE, token |-> ""]
        ELSE [ok |-> TRUE, token |-> pieces[2]]

\* what the environment can answer to the query of source s about domain d
Responses(s, d) ==
    CASE s = "dnsdumpster" ->
           {NetErr, Body("table", << <<Sub("a", d)>> >>)}
      [] s = "certspotter" ->
           {NetErr, Malformed, Body("json", << >>),
            Body("json", << <<Wild(d), Sub("b", d)>> >>)}
      [] s = "hackertarget" ->
           {NetErr, RateLimited, Body("lines", << <<Sub("a", d), "ip">> >>)}
      [] s = "crtsh" ->
           {NetErr, Malformed, Body("json", << <<Wild(d), Sub("c", d)>> >>)}

Raised(kind) == [raised |-> TRUE, kind |-> kind, write |-> FALSE, domains |-> {}]
Returned(domains, write) ==
    [raised |-> FALSE, kind |-> "none", write |-> write, domains |-> domains]

\* dnsdumpster_scraping, from the POST response on: one name per table cell
dnsdumpster_scraping(resp) ==
    IF resp.shape = "neterr" THEN Raised("neterr")
    ELSE Returned({resp.items[i][1] : i \in 1..Len(resp.items)}, TRUE)

\* certspotter_scraping: every dns_name of every item, lstrip('*.')
certspotter_scraping(resp) ==
    IF resp.shape = "neterr" THEN Raised("neterr")
    ELSE IF resp.shape # "json" THEN Raised("parse")
    ELSE Returned({lstrip(n, {"*", "."}) :
                     n \in UNION {Range(resp.items[i]) : i \in 1..Len(resp.items)}},
                  TRUE)

\* hackertarget_scraping: the rate-limit marker returns before write_to_cache
hackertarget_scraping(resp) ==
    IF resp.shape = "neterr" THEN Raised("neterr")
    ELSE IF resp.shape = "ratelimit" THEN Returned({}, FALSE)
    ELSE Returned({resp.items[i][1] : i \in 1..Len(resp.items)}, TRUE)

\* crtsh_scraping: the names of every name_value that do not start with '*.'
crtsh_scraping(resp) ==
    IF resp.shape = "neterr" THEN Raised("neterr")
    ELSE IF resp.shape # "json" THEN Raised("parse")
    ELSE Returned({n \in UNION {Range(resp.items[i]) : i \in 1..Len(resp.items)} :
                     ~startswith(n, <<"*", ".">>)},
                  TRUE)

Scrape(s, resp) ==
    CASE s = "dnsdumpster" -> dnsdumpster_scraping(resp)
      [] s = "certspotter" -> certspotter_scraping(resp)
      [] s = "hackertarget" -> hackertarget_scraping(resp)
      [] s = "crtsh" -> crtsh_scraping(resp)

\* write_to_cache: the response file and the domains file of one call
write_to_cache(files, subdir, domain, response, domains) ==
    [files EXCEPT ![<<subdir, domain>>] =
        Append(@, [response |-> response, domains |-> domains])]

Task(st, kind, resp, result) ==
    [st |-> st, kind |-> kind, resp |-> resp, result |-> result]
NoResp == [shape |-> "none", items |-> << >>]
IdleTask == Task("idle", "none", NoResp, {})
IdleTasks == [t \in TaskIds |-> IdleTask]

(***************************************************************************)
(* IP addresses and the WAF range filter                                   *)
(***************************************************************************)
\* address widths of the two families, scaled down from 32 and 128 bits
V4Bits == 1
V6Bits == 2
\* the largest candidate set the filter is exercised on
MaxCandidates == 2

Width(v) == IF v = 4 THEN V4Bits ELSE V6Bits
Addr(v, a) == [v |-> v, a |-> a]
Cidr(v, base, len) == [v |-> v, base |-> base, len |-> len]
AllAddrs == {Addr(4, a) : a \in 0..(2^V4Bits - 1)} \cup
            {Addr(6, a) : a \in 0..(2^V6Bits - 1)}
\* the networks ipaddress.ip_network accepts: no host bit set
AllCidrs ==
    UNION {{Cidr(v, k * 2^(Width(v) - len), len) : k \in 0..(2^len - 1)} :
             <<v, len>> \in ({4} \X (0..V4Bits)) \cup ({6} \X (0..V6Bits))}

\* the first line of PublicWAFs.txt, which is no range
HeaderLine == Cidr(0, 0, 0)

\* as ip_network, iterated like ip_network(...).hosts(): without the network
\* and broadcast addresses
ip_network_hosts(cidr) ==
    {Addr(cidr.v, a) :
       a \in (cidr.base + 1)..(cidr.base + 2^(Width(cidr.v) - cidr.len) - 2)}

\* ipaddress.ip_network(waf_ip), iterated: every address of the block
ip_network(cidr) ==
    {Addr(cidr.v, a) : a \in cidr.base..(cidr.base + 2^(Width(cidr.v) - cidr.len) - 1)}

\* parse_public_waf_ranges: content.splitlines()[1:]
parse_public_waf_ranges(lines) == Tail(lines)

\* filter_out_waf_ips
filter_out_waf_ips(ips_to_check, lines) ==
    LET waf_ips_with_cidr == parse_public_waf_ranges(lines)
        all_waf_ips == UNION {ip_network(waf_ips_with_cidr[i]) :
                                i \in 1..Len(waf_ips_with_cidr)}
    IN  {ip \in ips_to_check : ip \notin all_waf_ips}

\* the reference list and the resolvable addresses of the pipeline runs
DefaultWafFile == <<HeaderLine, Cidr(4, 0, V4Bits), Cidr(6, 0, V6Bits)>>
IPPool == {Addr(4, 0), Addr(4, 1), Addr(6, 1)}
\* the reference lists and candidate sets the filter is exercised on
WafFiles ==
    {<<HeaderLine>>} \cup {<<HeaderLine, c>> : c \in AllCidrs} \cup
    {<<HeaderLine, c1, c2>> : c1 \in AllCidrs, c2 \in AllCidrs}
CandidateSets == {S \in SUBSET AllAddrs : Cardinality(S) <= MaxCandidates}

\* ip_gathering: the addresses the hostnames resolve to; failures are dropped
ip_gathering(subdomains) == IF subdomains = {} THEN {{}} ELSE SUBSET IPPool

(***************************************************************************)
(* Page contents and the similarity scorer                                 *)
(***************************************************************************)
Pages == {"A", "B"}
BaselinePages == {"A"}
EmptyPage == ""

\* int(similarity(original_content, check_content, k=0.3) * 100)
similarity(a, b) ==
    IF a = b THEN 100 ELSE 70

\* what a GET of https://<url> can end in
Text(content) == [kind |-> "text", content |-> content]
Fails(kind) == [kind |-> kind, content |-> EmptyPage]
BaselineOutcomes ==
    {Text(p) : p \in BaselinePages} \cup
    {Fails("ClientConnectorError"), Fails("ServerDisconnectedError")}
CandidateOutcomes ==
    {Text(p) : p \in Pages \cup {EmptyPage}} \cup
    {Fails("TimeoutError"), Fails("ServerDisconnectedError")}

\* get_page_content: the two caught exception classes give None
get_page_content(outcome) ==
    IF outcome.kind = "text" THEN [raised |-> FALSE, content |-> outcome.content]
    ELSE IF outcome.kind \in {"ClientConnectorError", "TimeoutError"}
         THEN [raised |-> FALSE, content |-> None]
    ELSE [raised |-> TRUE, content |-> None]

\* compare_two_pages: (check_url, score), 0 when there is no content
compare_two_pages(original_content, check_url, outcome) ==
    LET got == get_page_content(outcome)
    IN  IF got.raised THEN [raised |-> TRUE, result |-> <<check_url, 0>>]
        ELSE IF got.content = None \/ got.content = EmptyPage
             THEN [raised |-> FALSE, result |-> <<check_url, 0>>]
        ELSE [raised |-> FALSE,
              result |-> <<check_url, similarity(original_content, got.content)>>]

\* as passes, with >= for >
passes_on_tie(score, similarity_rate) == score >= similarity_rate

\* compare_ips line 92: result[1] > self.args.similarity_rate
passes(score, similarity_rate) == score > similarity_rate

\* --similarity-rate: any int, default 70
SimilarityRates == {-1, 70, 100}

(***************************************************************************)
(* The state of a run, given its arguments and its control point           *)
(***************************************************************************)
Args(input_domains, similarity_rate, domains_only) ==
    [input_domains |-> input_domains, similarity_rate |-> similarity_rate,
     domains_only |-> domains_only]

NoFetches == [baseline |-> [d \in DomainPool |-> 0],
              candidate |-> [k \in DomainPool \X AllAddrs |-> 0]]

InitState(a, lines, at, found, resolved) ==
    /\ args = a
    /\ pc = at
    /\ error = NoError
    /\ todo = IF at = "find_subdomains" THEN a.input_domains ELSE {}
    /\ cur = NoDomain
    /\ task = IdleTasks
    /\ queries = NoQueries
    /\ cookie_jar = [d \in DomainPool |-> << >>]
    /\ dns_posts = {}
    /\ all_domains = found
    /\ cache = [k \in Sources \X DomainPool |-> << >>]
    /\ subdomain_files = [d \in DomainPool |-> << >>]
    /\ all_domains_file = << >>
    /\ printed = << >>
    /\ resolve_calls = IF at = "filter_ips" THEN <<found>> ELSE << >>
    /\ waf_file = lines
    /\ filter_calls = << >>
    /\ ips = resolved
    /\ filtered_ips = {}
    /\ cmp_todo = {}
    /\ cmp_cur = NoDomain
    /\ domain_content = None
    /\ ip_todo = {}
    /\ fetches = NoFetches
    /\ baselines = [d \in DomainPool |-> "none"]
    /\ scored = {}
    /\ similarity_output = {}
    /\ report = << >>
    /\ exit_code = << >>

(***************************************************************************)
(* The command line                                                        *)
(***************************************************************************)
\* -f FILE: absent, a path that cannot be opened, or a file and its lines
FileArg(given, readable, lines) ==
    [given |-> given, readable |-> readable, lines |-> lines]
NoFileArg == FileArg(FALSE, FALSE, << >>)
MissingFile == FileArg(TRUE, FALSE, << >>)
Files ==
    {FileArg(TRUE, TRUE, lines) :
       lines \in {<< >>, << <<"x", ".", "c">> >>, << <<"s", ".", "y", ".", "c">> >>,
                  << <<"x", ".", "c">>, <<"s", ".", "y", ".", "c">>, <<"x", ".", "c">> >>}}

\* --similarity-rate VALUE: an int literal or not
RateArg(is_int, value) == [is_int |-> is_int, value |-> value]
RateArgs == {RateArg(TRUE, r) : r \in SimilarityRates} \cup {RateArg(FALSE, 0)}

CommandLines ==
    [domain : {NoDomain} \cup DomainPool,
     file : {NoFileArg, MissingFile} \cup Files,
     rate : RateArgs,
     domains_only : BOOLEAN]

\* get_input_domains: the set of the file's stripped lines, or the -d domain
get_input_domains(argv) ==
    IF argv.file.given THEN Range(argv.file.lines) ELSE {argv.domain}

\* _parse_arguments: -d and -f are mutually exclusive and one is required,
\* FILE must open, --similarity-rate must be an int; otherwise parser.error
\* raises SystemExit(2)
parse_arguments(argv) ==
    IF \/ (argv.domain # NoDomain) = argv.file.given
       \/ (argv.file.given /\ ~argv.file.readable)
       \/ ~argv.rate.is_int
    THEN [ok |-> FALSE, status |-> 2, args |-> Args({}, 70, FALSE)]
    ELSE [ok |-> TRUE, status |-> 0,
          args |-> Args(get_input_domains(argv), argv.rate.value, argv.domains_only)]

\* the process has started; nothing is parsed yet
Init == InitState(Args({}, 70, FALSE), DefaultWafFile, "parse_args", {}, {})

\* main() and run() up to find_subdomains: WAFAbuser() parses the command
\* line; SystemExit is no Exception, so __main__ does not catch it and the
\* process ends with argparse's status
ParseArguments ==
    /\ pc = "parse_args"
    /\ \E argv \in CommandLines :
        LET parsed == parse_arguments(argv)
        IN  IF parsed.ok
            THEN /\ args' = parsed.args
                 /\ todo' = parsed.args.input_domains
                 /\ pc' = "find_subdomains"
                 /\ exit_code' = exit_code
            ELSE /\ pc' = "usage_error"
                 /\ exit_code' = <<parsed.status>>
                 /\ UNCHANGED <<args, todo>>
    /\ UNCHANGED <<error, cur, task, queries, cookie_jar, dns_posts, all_domains,
                   cache, subdomain_files, all_domains_file, printed,
                   resolve_calls, filterVars, compareVars, report>>

\* as main_exit_code, with the caught exception turned into status 1
main_exit_code_on_error(raised) == IF raised THEN 1 ELSE 0

\* __main__ lines 143-150: whether asyncio.run(main()) returned or raised an
\* Exception, sys.exit(0)
main_exit_code(raised) == 0

\* an exception leaves run(): asyncio.run cancels what is still pending,
\* __main__ prints and logs the exception and exits
Abort(stage, kind, source) ==
    /\ pc' = "aborted"
    /\ error' = [stage |-> stage, kind |-> kind, source |-> source]
    /\ exit_code' = <<main_exit_code(TRUE)>>

\* run() returns: asyncio.run returns and __main__ exits
Exits(at) == IF at = "done" THEN <<main_exit_code(FALSE)>> ELSE << >>

(***************************************************************************)
(* Stage 1: gather_subdomains                                              *)
(***************************************************************************)
\* as gather_loop_ready, with the gather created and not awaited
gather_loop_not_awaiting(at) == at \in {"find_subdomains", "gather"}

\* line 122: `await asyncio.gather(*tasks)` holds the loop until the five
\* coroutines of the current domain are over
gather_loop_ready(at) == at = "find_subdomains"

\* lines 112-122: the loop takes a domain, builds the five coroutines and
\* awaits asyncio.gather; each runs to its first request, get_top_domains
\* (which awaits nothing) to its end
StartGather ==
    /\ gather_loop_ready(pc)
    /\ \E domain \in todo :
        /\ todo' = todo \ {domain}
        /\ cur' = domain
        /\ queries' = [k \in Requests \X DomainPool |->
              IF k[2] = domain /\ k[1] # "dnsdumpster" THEN queries[k] + 1
              ELSE queries[k]]
        /\ task' = [t \in TaskIds |->
              CASE t = "dnsdumpster" -> Task("get", "none", NoResp, {})
                [] t = "top" ->
                     Task("done", "none", NoResp, Range(get_top_domains(<<domain>>)))
                [] OTHER -> Task("wait", "none", NoResp, {})]
    /\ pc' = "gather"
    /\ UNCHANGED <<args, exit_code, error, cookie_jar, dns_posts, all_domains, cache,
                   subdomain_files, all_domains_file, printed, resolve_calls,
                   filterVars, compareVars, report>>

\* dnsdumpster_scraping lines 27-40: the first response arrives, the token is
\* cut out of the cookie jar and the POST echoes it
DnsdumpsterToken ==
    /\ pc = "gather"
    /\ task["dnsdumpster"].st = "get"
    /\ \/ /\ task' = [task EXCEPT !["dnsdumpster"] = Task("raised", "neterr", NetErr, {})]
          /\ UNCHANGED <<queries, cookie_jar, dns_posts>>
       \/ \E cookie \in Cookies :
            LET parsed == csrf_token(cookie)
            IN  /\ cookie_jar' = [cookie_jar EXCEPT ![cur] = <<cookie>>]
                /\ IF ~parsed.ok
                   THEN /\ task' = [task EXCEPT !["dnsdumpster"] =
                                       Task("raised", "notoken", NoResp, {})]
                        /\ UNCHANGED <<queries, dns_posts>>
                   ELSE /\ task' = [task EXCEPT !["dnsdumpster"] =
                                       Task("wait", "none", NoResp, {})]
                        /\ queries' = [queries EXCEPT ![<<"dnsdumpster", cur>>] = @ + 1]
                        /\ dns_posts' = dns_posts \cup
                              {[csrfmiddlewaretoken |-> parsed.token,
                                cookie |-> parsed.token, targetip |-> cur]}
    /\ UNCHANGED <<args, exit_code, pc, error, todo, cur, all_domains, cache, subdomain_files,
                   all_domains_file, printed, resolve_calls, filterVars,
                   compareVars, report>>

\* the query response of source s arrives and the coroutine runs to its end:
\* parse, write_to_cache, return; or the exception ends it
SourceResponse(s) ==
    /\ pc = "gather"
    /\ task[s].st = "wait"
    /\ \E resp \in Responses(s, cur) :
        LET out == Scrape(s, resp)
        IN  /\ task' = [task EXCEPT ![s] =
                  IF out.raised THEN Task("raised", out.kind, resp, {})
                  ELSE Task("done", "none", resp, out.domains)]
            /\ cache' = IF out.write
                        THEN write_to_cache(cache, s, cur, resp, out.domains)
                        ELSE cache
    /\ UNCHANGED <<args, exit_code, pc, error, todo, cur, queries, cookie_jar,
                   dns_posts, all_domains, subdomain_files, all_domains_file,
                   printed, resolve_calls, filterVars, compareVars, report>>

\* as update_all, with subdomains = result for subdomains.update(result)
RECURSIVE update_all(_, _)
assign_all(subdomains, results) ==
    IF results = << >> THEN subdomains ELSE results[Len(results)]

\* lines 123-124: subdomains.update(result) over the results in task order
update_all(subdomains, results) ==
    IF results = << >> THEN subdomains
    ELSE update_all(subdomains \cup Head(results), Tail(results))

\* as gather_returns, with return_exceptions=True and the exceptions dropped
gather_returns_exceptions(tasks) ==
    \A t \in TaskIds : tasks[t].st \in {"done", "raised"}

\* line 122: gather returns its results once every coroutine has returned
gather_returns(tasks) == \A t \in TaskIds : tasks[t].st = "done"

\* lines 122-129: every coroutine has returned; merge, add the domain, dump it
GatherReturn ==
    /\ pc = "gather"
    /\ gather_returns(task)
    /\ LET results == [i \in 1..Len(TaskOrder) |-> task[TaskOrder[i]].result]
           subdomains == update_all({}, results) \cup {cur}
       IN  /\ all_domains' = all_domains \cup subdomains
           /\ subdomain_files' = [subdomain_files EXCEPT ![cur] = Append(@, subdomains)]
    /\ pc' = "find_subdomains"
    /\ UNCHANGED <<args, exit_code, error, todo, cur, task, queries, cookie_jar,
                   dns_posts, cache, all_domains_file, printed, resolve_calls,
                   filterVars, compareVars, report>>

\* line 122 without return_exceptions: the first exception of a coroutine is
\* raised out of gather and out of run(); the pending coroutines are cancelled
GatherRaise ==
    /\ pc = "gather"
    /\ \E s \in Sources :
        /\ task[s].st = "raised"
        /\ Abort("discover", task[s].kind, s)
    /\ task' = [t \in TaskIds |->
                  IF task[t].st \in {"get", "wait"}
                  THEN [task[t] EXCEPT !.st = "cancelled"] ELSE task[t]]
    /\ UNCHANGED <<args, todo, cur, queries, cookie_jar, dns_posts, all_domains,
                   cache, subdomain_files, all_domains_file, printed,
                   resolve_calls, filterVars, compareVars, report>>

\* as gather_loop_done, with the return inside the loop body
gather_loop_returns_early(remaining) == TRUE

\* line 112: the for loop ends when every domain has been taken
gather_loop_done(remaining) == remaining = {}

\* as after_find_subdomains, without the return of line 126
after_find_subdomains_no_return(domains_only) == "find_ips"

\* run() lines 121-128: --domains-only returns, otherwise find_ips is next
after_find_subdomains(domains_only) == IF domains_only THEN "done" ELSE "find_ips"

\* lines 131-132 and run() lines 121-126: the loop is over; the aggregate is
\* dumped and returned; --domains-only prints it and returns
FinishDiscovery ==
    /\ pc = "find_subdomains"
    /\ gather_loop_done(todo)
    /\ all_domains_file' = Append(all_domains_file, all_domains)
    /\ printed' = IF args.domains_only THEN Append(printed, all_domains) ELSE printed
    /\ pc' = after_find_subdomains(args.domains_only)
    /\ exit_code' = Exits(pc')
    /\ UNCHANGED <<args, error, todo, cur, task, queries, cookie_jar, dns_posts,
                   all_domains, cache, subdomain_files, resolve_calls, filterVars,
                   compareVars, report>>

(***************************************************************************)
(* Stages 2 and 3: find_ips, filter_ips                                    *)
(***************************************************************************)
\* run() line 128: ip_gathering over the subdomains find_subdomains returned
FindIps ==
    /\ pc = "find_ips"
    /\ resolve_calls' = Append(resolve_calls, all_domains)
    /\ ips' \in ip_gathering(all_domains)
    /\ pc' = "filter_ips"
    /\ UNCHANGED <<args, exit_code, error, discoveryVars, printed, waf_file, filter_calls,
                   filtered_ips, compareVars, report>>

\* as after_filter_ips, without the return of line 133
after_filter_ips_no_return(filtered) == "compare_ips"

\* run() lines 131-135: an empty filtered set returns, otherwise compare_ips
after_filter_ips(filtered) == IF filtered = {} THEN "done" ELSE "compare_ips"

\* run() lines 129-135: filter the resolved IPs; an empty result ends the run,
\* otherwise compare_ips starts its loop over the input domains
FilterIps ==
    /\ pc = "filter_ips"
    /\ filter_calls' = Append(filter_calls, ips)
    /\ filtered_ips' = filter_out_waf_ips(ips, waf_file)
    /\ pc' = after_filter_ips(filtered_ips')
    /\ exit_code' = Exits(pc')
    /\ cmp_todo' = IF pc' = "compare_ips" THEN args.input_domains ELSE cmp_todo
    /\ UNCHANGED <<args, error, discoveryVars, printed, resolve_calls, waf_file,
                   ips, cmp_cur, domain_content, ip_todo, fetches, baselines,
                   scored, similarity_output, report>>

(***************************************************************************)
(* Stage 4: compare_ips and output_results                                 *)
(***************************************************************************)
\* lines 86-89: the outer loop takes a domain and fetches its page; None
\* skips the domain
BaselineFetch ==
    /\ pc = "compare_ips"
    /\ \E domain \in cmp_todo, outcome \in BaselineOutcomes :
        LET got == get_page_content(outcome)
        IN  /\ cmp_todo' = cmp_todo \ {domain}
            /\ cmp_cur' = domain
            /\ fetches' = [fetches EXCEPT !.baseline[domain] = @ + 1]
            /\ baselines' = [baselines EXCEPT ![domain] = outcome.kind]
            /\ IF got.raised
               THEN /\ Abort("compare", outcome.kind, "baseline")
                    /\ UNCHANGED <<domain_content, ip_todo>>
               ELSE IF got.content = None
               THEN /\ UNCHANGED <<pc, error, exit_code, domain_content, ip_todo>>
               ELSE /\ domain_content' = got.content
                    /\ ip_todo' = filtered_ips
                    /\ pc' = "compare_domain"
                    /\ UNCHANGED <<error, exit_code>>
    /\ UNCHANGED <<args, discoveryVars, printed, resolve_calls, filterVars,
                   scored, similarity_output, report>>

\* as inner_loop_rest, with an IP that scored 0 taken again
inner_loop_retry_zero(remaining, ip, score) ==
    IF score = 0 THEN remaining ELSE remaining \ {ip}

\* line 90: `for ip in filtered_ips` takes every IP once, whatever it scored
inner_loop_rest(remaining, ip, score) == remaining \ {ip}

\* lines 90-93: the inner loop takes an IP, awaits compare_two_pages and keeps
\* the result when it passes the threshold
CandidateFetch ==
    /\ pc = "compare_domain"
    /\ \E ip \in ip_todo, outcome \in CandidateOutcomes :
        LET cmp == compare_two_pages(domain_content, ip, outcome)
        IN  /\ fetches' = [fetches EXCEPT !.candidate[<<cmp_cur, ip>>] = @ + 1]
            /\ ip_todo' = inner_loop_rest(ip_todo, ip, cmp.result[2])
            /\ IF cmp.raised
               THEN /\ Abort("compare", outcome.kind, "candidate")
                    /\ UNCHANGED <<scored, similarity_output>>
               ELSE /\ scored' = scored \cup
                          {[domain |-> cmp_cur, ip |-> ip, fetch |-> outcome.kind,
                            score |-> cmp.result[2]]}
                    /\ similarity_output' =
                          IF passes(cmp.result[2], args.similarity_rate)
                          THEN similarity_output \cup {cmp.result}
                          ELSE similarity_output
                    /\ pc' = IF ip_todo' = {} THEN "compare_ips" ELSE pc
                    /\ UNCHANGED <<error, exit_code>>
    /\ UNCHANGED <<args, discoveryVars, printed, resolve_calls, filterVars,
                   cmp_todo, cmp_cur, domain_content, baselines, report>>

\* output_results line 103: row_format.format(ip, f"{similarity}%")
row_format(ip, score) == [ip |-> ip, similarity |-> <<score, "%">>]

\* as output_results, without the early return of lines 97-100
output_results_always(files, output) ==
    Append(files, {row_format(rec[1], rec[2]) : rec \in output})

\* output_results: the file is written when similarity_output is not empty,
\* one row per (ip, similarity) of the set
output_results(files, output) ==
    IF output = {} THEN files
    ELSE Append(files, {row_format(rec[1], rec[2]) : rec \in output})

\* lines 94 and 136: the outer loop is over, compare_ips returns and run()
\* hands the set to output_results
OutputResults ==
    /\ pc = "compare_ips"
    /\ cmp_todo = {}
    /\ report' = output_results(report, similarity_output)
    /\ pc' = "done"
    /\ exit_code' = Exits(pc')
    /\ UNCHANGED <<args, error, discoveryVars, printed, resolve_calls, filterVars,
                   compareVars>>

Next ==
    \/ ParseArguments
    \/ StartGather
    \/ DnsdumpsterToken
    \/ \E s \in Sources : SourceResponse(s)
    \/ GatherReturn
    \/ GatherRaise
    \/ FinishDiscovery
    \/ FindIps
    \/ FilterIps
    \/ BaselineFetch
    \/ CandidateFetch
    \/ OutputResults

Spec == Init /\ [][Next]_vars

(***************************************************************************)
(* The range filter on its own: run() stands before filter_ips with any    *)
(* resolved set and any reference list                                     *)
(***************************************************************************)
InitFilter ==
    \E candidates \in CandidateSets, lines \in WafFiles :
        InitState(Args({<<"x", ".", "c">>}, 70, FALSE), lines,
                  "filter_ips", {<<"x", ".", "c">>}, candidates)

NextFilter == FilterIps

SpecFilter == InitFilter /\ [][NextFilter]_vars

\* the reference range covers the address: same family, same network prefix
Covers(cidr, ip) ==
    /\ cidr.v = ip.v
    /\ ip.a \div 2^(Width(ip.v) - cidr.len) = cidr.base \div 2^(Width(ip.v) - cidr.len)

CoveredByList(ip) == \E i \in 2..Len(waf_file) : Covers(waf_file[i], ip)

Last(seq) == seq[Len(seq)]

\* the gather of domain d has been awaited and has returned or raised
DiscoveryEnded(d) ==
    /\ d \in args.input_domains
    /\ d \notin todo
    /\ ~(pc = "gather" /\ cur = d)

\* a query of source s for the current domain met a network error
SourceFailed(s) == task[s].st = "raised" /\ task[s].kind = "neterr"

\* C1: a network failure of one source is contained in its branch: it never
\* leaves gather_subdomains as the exception that ends the run, and once the
\* failed domain's gather is over its discovered set has been produced
C1_SourceFailureContained ==
    /\ ~(pc = "aborted" /\ error.stage = "discover" /\ error.kind = "neterr")
    /\ \A s \in Sources :
         (SourceFailed(s) /\ DiscoveryEnded(cur)) => subdomain_files[cur] # << >>

\* C2: whatever the sources answered (names, nothing, the rate-limit marker or
\* a network failure), once the discovery of an input domain d is over the
\* subdomain set produced for d exists and contains d
C2_DomainInOwnSet ==
    \A d \in DomainPool :
        (DiscoveryEnded(d) /\ error.kind \notin {"parse", "notoken"}) =>
            /\ subdomain_files[d] # << >>
            /\ d \in Last(subdomain_files[d])

C5_FetchFailureContained ==
    /\ ~(pc = "aborted" /\ error.stage = "compare" /\ error.source = "candidate")
    /\ \A r \in scored :
         r.fetch # "text" => (r.score = 0 /\ <<r.ip, r.score>> \notin similarity_output)

\* the union of the stage-1 results of all input domains
StageOneUnion ==
    UNION {Last(subdomain_files[d]) :
             d \in {e \in args.input_domains : subdomain_files[e] # << >>}}

\* C6: with --domains-only no IP resolution, no range filtering and no content
\* fetch is ever performed and no results file is written, and a finished run
\* has printed exactly the union of the stage-1 results of the input domains
C6_DiscoveryOnly ==
    args.domains_only =>
        /\ resolve_calls = << >>
        /\ filter_calls = << >>
        /\ fetches = NoFetches
        /\ report = << >>
        /\ pc \in {"find_subdomains", "gather", "done", "aborted"}
        /\ pc = "done" =>
             /\ \A d \in args.input_domains : subdomain_files[d] # << >>
             /\ printed = <<StageOneUnion>>

\* C6 witness: a finished discovery-only run over two domains that printed
\* names found by the sources
C6_Witness ==
    /\ args.domains_only
    /\ pc = "done"
    /\ Cardinality(args.input_domains) = 2
    /\ Cardinality(printed[1]) > 4

\* C7: when filter_out_waf_ips returned the empty set the run is over without
\* error: no baseline or candidate fetch is made and no results file written
C7_EmptyFilterHalts ==
    (filter_calls # << >> /\ filtered_ips = {}) =>
        /\ pc = "done"
        /\ error = NoError
        /\ fetches = NoFetches
        /\ scored = {}
        /\ report = << >>

\* C7 witness: the filter ran on resolved IPs, all of them WAF addresses
C7_Witness ==
    /\ filter_calls # << >>
    /\ ips # {}
    /\ filtered_ips = {}
    /\ pc = "done"

InFlight(t) == task[t].st \in {"get", "wait"}

\* C8: discover, resolve, filter, confirm run in this order, each on the
\* complete output of the one before: resolution is called once, after every
\* input domain's gather has returned, with the union of all their sets; the
\* filter once, on the resolved set; fetches start only after the filter, over
\* exactly the filtered set
C8_StageBarrier ==
    /\ pc \in {"find_subdomains", "gather"} =>
         resolve_calls = << >> /\ filter_calls = << >> /\ fetches = NoFetches
    /\ resolve_calls # << >> =>
         /\ todo = {}
         /\ \A t \in TaskIds : ~InFlight(t)
         /\ \A d \in args.input_domains : subdomain_files[d] # << >>
         /\ resolve_calls = <<StageOneUnion>>
    /\ pc = "find_ips" => filter_calls = << >> /\ fetches = NoFetches
    /\ filter_calls # << >> => resolve_calls # << >> /\ filter_calls = <<ips>>
    /\ pc = "filter_ips" => fetches = NoFetches
    /\ fetches # NoFetches =>
         /\ filter_calls # << >>
         /\ filtered_ips = {ip \in ips : ~CoveredByList(ip)}
         /\ \A d \in DomainPool, ip \in AllAddrs :
              fetches.candidate[<<d, ip>>] > 0 => ip \in filtered_ips
    /\ pc = "compare_domain" => ip_todo \subseteq filtered_ips

\* C8 witness: the fourth stage is fetching candidates for the second of two
\* input domains
C8_Witness ==
    /\ pc = "compare_domain"
    /\ Cardinality(args.input_domains) = 2
    /\ cmp_todo = {}
    /\ Cardinality(filtered_ips) = 2
    /\ \E ip \in filtered_ips : fetches.candidate[<<cmp_cur, ip>>] = 1

\* C9: when the gather of a domain has returned, the domain's set is the
\* domain plus the union of the results its coroutines returned, whatever
\* the order in which their responses arrived
C9_OrderIndependent ==
    (pc = "find_subdomains" /\ cur # NoDomain) =>
        Last(subdomain_files[cur]) = {cur} \cup UNION {task[t].result : t \in TaskIds}

\* C9 witness: a gather has returned in which three sources contributed
\* names, not all the same
C9_Witness ==
    /\ pc = "find_subdomains"
    /\ cur # NoDomain
    /\ \A s \in {"dnsdumpster", "certspotter", "crtsh"} : task[s].result # {}
    /\ task["certspotter"].result # task["crtsh"].result
    /\ task["hackertarget"].resp = RateLimited

\* C10: every source interaction that is over, whether it succeeded, was
\* rate-limited or failed, has left exactly one audit record for its
\* (source, domain) pair
C10_OneAuditRecord ==
    \A s \in Sources :
        (cur # NoDomain /\ task[s].st \in {"done", "raised"}) =>
            Len(cache[<<s, cur>>]) = 1

\* C11 as claimed: every run that has ended, whatever its command line and
\* whatever happened in the pipeline, exited with status 0
C11_ExitAlwaysZero == exit_code # << >> => exit_code = <<0>>

\* C11 as amended: a run whose command line parsed exits with status 0,
\* whether run() returned or an exception left it; a run whose input
\* selection is conflicting or invalid exits with status 2 before any stage
C11_ExitZeroOnceParsed ==
    /\ pc \in {"done", "aborted"} => exit_code = <<0>>
    /\ pc = "usage_error" =>
         /\ exit_code = <<2>>
         /\ all_domains_file = << >> /\ resolve_calls = << >> /\ fetches = NoFetches
    /\ exit_code # << >> => pc \in {"done", "aborted", "usage_error"}
    /\ pc \in {"parse_args", "find_subdomains", "gather", "find_ips", "filter_ips",
               "compare_ips", "compare_domain"} => exit_code = << >>

\* C11 witness: an exception left the pipeline and the process exited with 0
C11_Witness ==
    /\ pc = "aborted"
    /\ error.stage = "compare"
    /\ exit_code = <<0>>

RunEnded == pc \in {"done", "aborted", "usage_error"}

C13_CandidatesFetchedTogether ==
    (pc = "compare_domain" /\ cmp_cur # NoDomain) =>
        \A ip \in filtered_ips :
            fetches.candidate[<<cmp_cur, ip>>] > 0 =>
                \A other \in filtered_ips : fetches.candidate[<<cmp_cur, other>>] > 0

\* the domains some scraper has sent a request about
QueriedDomains == {d \in DomainPool : \E r \in Requests : queries[<<r, d>>] > 0}

\* write_subdomain_results has written the domain's file
DomainWritten(d) == subdomain_files[d] # << >>

\* C14: the source queries of one domain are in flight together, and domains
\* are taken one at a time: while any query is in flight it belongs to the
\* current domain, and every other domain a query was ever sent about has
\* had all its queries answered and its per-domain file written
C14_DomainsOneAtATime ==
    /\ \A t \in TaskIds : InFlight(t) => (pc = "gather" /\ cur \in QueriedDomains)
    /\ \A d \in QueriedDomains \ {cur} :
         /\ DomainWritten(d)
         /\ d \notin todo
         /\ \A s \in Sources \ {"dnsdumpster"} : queries[<<s, d>>] = 1
    /\ \A d \in todo : d \notin QueriedDomains

\* three queries of the second domain are in flight together, the first
\* domain's file is written
C14_Witness ==
    /\ pc = "gather"
    /\ Cardinality({t \in TaskIds : InFlight(t)}) >= 3
    /\ \E d \in QueriedDomains \ {cur} : DomainWritten(d)

\* C15: no request is sent twice: every (request, domain), every baseline and
\* every (domain, IP) fetch is issued at most once; a rate-limited source
\* ends with the empty set, and every (domain, IP) has at most one result
C15_NoRetry ==
    /\ \A k \in Requests \X DomainPool : queries[k] <= 1
    /\ \A d \in DomainPool : fetches.baseline[d] <= 1
    /\ \A k \in DomainPool \X AllAddrs : fetches.candidate[k] <= 1
    /\ \A k \in Sources \X DomainPool : Len(cache[k]) <= 1
    /\ task["hackertarget"].resp = RateLimited =>
         (task["hackertarget"].st = "done" /\ task["hackertarget"].result = {})
    /\ \A r1 \in scored, r2 \in scored :
         (r1.domain = r2.domain /\ r1.ip = r2.ip) => r1 = r2
    /\ \A r \in scored :
         r.fetch # "text" => (r.score = 0 /\ fetches.candidate[<<r.domain, r.ip>>] = 1)

\* a run has ended after a rate-limited source, a failed baseline fetch and
\* a candidate fetch that timed out
C15_Witness ==
    /\ pc = "done"
    /\ task["hackertarget"].resp = RateLimited
    /\ \E d \in DomainPool : baselines[d] = "ClientConnectorError"
    /\ \E r \in scored : r.fetch = "TimeoutError"

ParseFailed(s) == task[s].st = "raised" /\ task[s].kind = "parse"

\* C16: once a source's response failed to parse, the join does not return:
\* the domain's file is not written, no further domain is queried, no later
\* stage runs, and the run can only end aborted in discovery
C16_ParseFailureAborts ==
    \A s \in Sources : ParseFailed(s) =>
        /\ pc \in {"gather", "aborted"}
        /\ pc = "aborted" => error.stage = "discover"
        /\ ~DomainWritten(cur)
        /\ \A d \in todo : d \notin QueriedDomains
        /\ all_domains_file = << >>
        /\ printed = << >>
        /\ resolve_calls = << >>
        /\ filter_calls = << >>
        /\ fetches = NoFetches
        /\ report = << >>

\* the run is aborted by a parse failure while a domain is still to discover
C16_Witness ==
    /\ pc = "aborted"
    /\ error.kind = "parse"
    /\ error.source \in {"certspotter", "crtsh"}
    /\ todo # {}

\* the sources that parse certificate name fields
CertificateSources == {"certspotter", "crtsh"}
ReturnedNames(s) ==
    UNION {Range(task[s].resp.items[i]) : i \in 1..Len(task[s].resp.items)}
IsWildcard(name) == startswith(name, <<"*", ".">>)

\* C17: a certificate source that returned "*." + bare name has the bare name
\* in its derived set, and no name of the derived set carries the wildcard
C17_WildcardStripped ==
    \A s \in CertificateSources : task[s].st = "done" =>
        /\ \A n \in ReturnedNames(s) :
             IsWildcard(n) => SubSeq(n, 3, Len(n)) \in task[s].result
        /\ \A m \in task[s].result : ~IsWildcard(m)

\* C18: a query is sent about a domain only after the first request about it
\* was answered with a csrftoken; the query carries that token as form field
\* and as cookie together with the domain; without a token no query is sent
C18_HandshakeOrder ==
    /\ \A post \in dns_posts :
         /\ queries[<<"dnsdumpster_token", post.targetip>>] = 1
         /\ queries[<<"dnsdumpster", post.targetip>>] = 1
         /\ post.csrfmiddlewaretoken # None
         /\ cookie_jar[post.targetip] = <<post.csrfmiddlewaretoken>>
         /\ post.cookie = post.csrfmiddlewaretoken
    /\ \A d \in DomainPool :
         /\ queries[<<"dnsdumpster", d>>] > 0 => \E post \in dns_posts : post.targetip = d
         /\ cookie_jar[d] \in {<< >>, <<None>>} =>
              /\ queries[<<"dnsdumpster", d>>] = 0
              /\ \A post \in dns_posts : post.targetip # d
    /\ task["dnsdumpster"].st = "get" => queries[<<"dnsdumpster", cur>>] = 0

\* one domain was queried with its token, another got no token and no query
C18_Witness ==
    /\ \E post \in dns_posts : cookie_jar[post.targetip] = <<"tok1">>
    /\ \E d \in DomainPool :
         /\ cookie_jar[d] = <<None>>
         /\ queries[<<"dnsdumpster_token", d>>] = 1
         /\ queries[<<"dnsdumpster", d>>] = 0

BaselineFailed(d) == baselines[d] \notin {"none", "text"}

\* C19: a domain whose own page could not be fetched gets no candidate fetch
\* and no result, the loop goes on to the other domains, and a run in which
\* every baseline failed ends without error and with an empty confirmed set
C19_BaselineFailureSkipsDomain ==
    /\ \A d \in DomainPool : BaselineFailed(d) =>
         /\ \A ip \in AllAddrs : fetches.candidate[<<d, ip>>] = 0
         /\ \A r \in scored : r.domain # d
         /\ ~(pc = "aborted" /\ error.source = "baseline")
    /\ (RunEnded /\ fetches.baseline # NoFetches.baseline
          /\ \A d \in DomainPool : baselines[d] # "text") =>
         (pc = "done" /\ error = NoError /\ similarity_output = {})

====
